---------------------------- MODULE Spec2Model ----------------------------
(***************************************************************************)
(* Model of the markitdown API core: content-type detection                *)
(* (app/utils.py: detect_content_type, is_supported_filetype) and the      *)
(* /convert handler's dispatch among converters (app/main.py: convert).    *)
(*                                                                         *)
(* Representation.                                                         *)
(*  - A string is a sequence of tokens (TLA+ strings); "" and None are     *)
(*    both the empty sequence <<>> (Python tests them with `not x`).       *)
(*    A MIME type is <<"text/html">>, a header value with parameters is    *)
(*    <<"text/html", ";", "charset=utf-8">>, an extension is               *)
(*    <<".", "pdf">>.                                                      *)
(*  - Content is a sequence of chunks [t, names]; t is what the chunk      *)
(*    holds, names is the archive listing a ZIP end-of-central-directory   *)
(*    chunk carries.  Lengths (sample_size, safe_decode's size, the 8      *)
(*    magic bytes) are counted in chunks.                                  *)
(*  - The external converters (trafilatura, chardet, readability,          *)
(*    html2text, MarkItDown) and the faults of file writes are oracles:    *)
(*    their answers are drawn when the branch that consults them is        *)
(*    entered and recorded in the request.                                 *)
(***************************************************************************)
EXTENDS Integers, Sequences, FiniteSets, TLC

VARIABLES req, files, registry

vars == <<req, files, registry>>

-----------------------------------------------------------------------------
(* Bounds of the model *)

\* Largest number of filler chunks between a ZIP's first chunk and its
\* end-of-central-directory chunk.
MaxPad == 2

\* Number of temporary-file names the file system can hand out.
MaxNames == 2

\* Chunk counts standing for the byte counts of the source.
sample_size == 3
decode_size == 2
magic_size == 1

SoloProcs == {1}
Procs == {1, 2}
Names == 1..MaxNames

-----------------------------------------------------------------------------
(* Strings as token sequences *)

Empty == <<>>

Ext(name) == <<".", name>>

\* str.lower() on one token
LowerTok(t) ==
    CASE t = "TEXT/HTML" -> "text/html"
      [] t = "Application/PDF" -> "application/pdf"
      [] t = "PDF" -> "pdf"
      [] t = "HTML" -> "html"
      [] t = "<HTML" -> "<html"
      [] t = "<!DOCTYPE html" -> "<!doctype html"
      [] OTHER -> t

Lower(s) == [i \in 1..Len(s) |-> LowerTok(s[i])]

\* Index of the first occurrence of token t in s, 0 when absent
IndexOf(s, t) ==
    IF \E i \in 1..Len(s) : s[i] = t
    THEN CHOOSE i \in 1..Len(s) : s[i] = t /\ \A j \in 1..(i - 1) : s[j] # t
    ELSE 0

\* Index of the last occurrence of token t in s, 0 when absent
LastIndexOf(s, t) ==
    IF \E i \in 1..Len(s) : s[i] = t
    THEN CHOOSE i \in 1..Len(s) : s[i] = t /\ \A j \in (i + 1)..Len(s) : s[j] # t
    ELSE 0

\* s.split(t)[0]
SplitFirst(s, t) ==
    IF IndexOf(s, t) = 0 THEN s ELSE SubSeq(s, 1, IndexOf(s, t) - 1)

\* s[:n]
Prefix(s, n) == SubSeq(s, 1, IF Len(s) < n THEN Len(s) ELSE n)

\* s.lstrip(t)
RECURSIVE LStrip(_, _)
LStrip(s, t) ==
    IF Len(s) > 0 /\ s[1] = t THEN LStrip(Tail(s), t) ELSE s

\* s.strip() / s.lstrip() of whitespace tokens
RECURSIVE LStripWs(_)
LStripWs(s) ==
    IF Len(s) > 0 /\ s[1] = " " THEN LStripWs(Tail(s)) ELSE s

RECURSIVE RStripWs(_)
RStripWs(s) ==
    IF Len(s) > 0 /\ s[Len(s)] = " " THEN RStripWs(SubSeq(s, 1, Len(s) - 1)) ELSE s

StripWs(s) == RStripWs(LStripWs(s))

-----------------------------------------------------------------------------
(* Extension/MIME registry *)

\* The dict literal, in insertion order
MIME_TYPE_MAPPINGS ==
    << <<"text/html", Ext("html")>>,
       <<"application/xhtml+xml", Ext("html")>>,
       <<"application/xml", Ext("xml")>>,
       <<"text/xml", Ext("xml")>>,
       <<"text/plain", Ext("txt")>>,
       <<"text/markdown", Ext("md")>>,
       <<"text/x-markdown", Ext("md")>>,
       <<"text/csv", Ext("csv")>>,
       <<"text/comma-separated-values", Ext("csv")>>,
       <<"application/pdf", Ext("pdf")>>,
       <<"application/msword", Ext("doc")>>,
       <<"application/vnd.openxmlformats-officedocument.wordprocessingml.document", Ext("docx")>>,
       <<"application/vnd.ms-excel", Ext("xls")>>,
       <<"application/vnd.openxmlformats-officedocument.spreadsheetml.sheet", Ext("xlsx")>>,
       <<"application/vnd.ms-powerpoint", Ext("ppt")>>,
       <<"application/vnd.openxmlformats-officedocument.presentationml.presentation", Ext("pptx")>>,
       <<"application/json", Ext("json")>>,
       <<"image/jpeg", Ext("jpg")>>,
       <<"image/png", Ext("png")>>,
       <<"image/gif", Ext("gif")>>,
       <<"image/webp", Ext("webp")>> >>

\* {ext.lower() for ext in table.values()}
SupportedOf(table) == {Lower(table[i][2]) : i \in 1..Len(table)}

SUPPORTED_EXTENSIONS == SupportedOf(MIME_TYPE_MAPPINGS)

\* table.get(content_type): the extension of a key, None (empty) otherwise
RegistryGet(table, ct) ==
    IF Len(ct) = 1 /\ \E i \in 1..Len(table) : table[i][1] = ct[1]
    THEN table[CHOOSE i \in 1..Len(table) : table[i][1] = ct[1]][2]
    ELSE Empty

\* next((k for k, v in table.items() if v == extension), None)
RegistryFirstKey(table, ext) ==
    IF \E i \in 1..Len(table) : table[i][2] = ext
    THEN <<table[CHOOSE i \in 1..Len(table) :
                    /\ table[i][2] = ext
                    /\ \A j \in 1..(i - 1) : table[j][2] # ext][1]>>
    ELSE Empty

\* The membership test with the leading dot left on the argument
is_supported_filetype_dotted(ext) ==
    StripWs(Lower(ext)) \in {LStrip(e, ".") : e \in SUPPORTED_EXTENSIONS}

\* ext.lower().strip().lstrip('.') in {e.lstrip('.') for e in SUPPORTED_EXTENSIONS}
is_supported_filetype(ext) ==
    LStrip(StripWs(Lower(ext)), ".") \in {LStrip(e, ".") : e \in SUPPORTED_EXTENSIONS}

-----------------------------------------------------------------------------
(* Content: chunks, decoding, archives *)

Chunk(t) == [t |-> t, names |-> {}]

\* The end-of-central-directory chunk of a ZIP archive listing `names`
Eocd(names) == [t |-> "EOCD", names |-> names]

\* Chunks that are not valid UTF-8
Utf8Invalid == {"\\x89PNG", "\\xff\\xd8\\xff", "\\xff", "\\xff\\xfe", "data", "EOCD"}

\* bytes.decode('utf-8') succeeds
Utf8Valid(bytes) == \A i \in 1..Len(bytes) : bytes[i].t \notin Utf8Invalid

\* bytes.decode('utf-16') succeeds (an undecodable unit makes it fail)
Utf16Valid(bytes) == \A i \in 1..Len(bytes) : bytes[i].t # "\\xff"

\* safe_decode(content, size): utf-8, utf-16, ascii, iso-8859-1 in turn.
\* utf-16 turns every chunk into unrelated characters; iso-8859-1 keeps the
\* ASCII chunks and maps the other bytes to Latin-1 letters.
safe_decode(content, size) ==
    LET sample == Prefix(content, size) IN
    IF Utf8Valid(sample) THEN [i \in 1..Len(sample) |-> sample[i].t]
    ELSE IF Utf16Valid(sample) THEN [i \in 1..Len(sample) |-> "u16"]
    ELSE [i \in 1..Len(sample) |->
             IF sample[i].t \in Utf8Invalid THEN "latin1" ELSE sample[i].t]

\* First character of a text token
FirstChar(t) ==
    CASE t \in {"<html", "<HTML", "<root", "<!DOCTYPE html", "<!doctype html"} -> "<"
      [] t \in {"{\"a\":1}"} -> "{"
      [] t \in {"[1,2]"} -> "["
      [] OTHER -> t

\* sub in token
TokContains(t, sub) ==
    CASE sub = "<html" -> t = "<html"
      [] sub = "<!doctype html" -> t = "<!doctype html"
      [] sub = "," -> t \in {"a,b", "[1,2]"}
      [] sub = ";" -> t = "a;b"
      [] OTHER -> t = sub

\* sub in text
Contains(text, sub) == \E i \in 1..Len(text) : TokContains(text[i], sub)

\* text.lstrip().startswith(c)
LStripStartsWith(text, c) ==
    LET s == LStripWs(text) IN Len(s) > 0 /\ FirstChar(s[1]) = c

\* bytes.startswith(magic)
BytesStartWith(bytes, magic) == Len(bytes) > 0 /\ bytes[1].t = magic

\* zipfile.ZipFile(path) finds the end-of-central-directory record at the
\* end of the file; without it the file is not a zip file (BadZipFile).
IsZipFile(data) == Len(data) > 0 /\ data[Len(data)].t = "EOCD"

\* zf.namelist()
namelist(data) == data[Len(data)].names

\* name.startswith(dir + '/'): archive names are <<dir, ..., file>>
NameUnder(name, dir) == Len(name) >= 2 /\ name[1] = dir

MimeDocx == "application/vnd.openxmlformats-officedocument.wordprocessingml.document"
MimeXlsx == "application/vnd.openxmlformats-officedocument.spreadsheetml.sheet"
MimePptx == "application/vnd.openxmlformats-officedocument.presentationml.presentation"

-----------------------------------------------------------------------------
(* detect_content_type, step by step.  st is [ct, ext]: the function's      *)
(* locals content_type and extension.                                      *)

Unknown == [ct |-> Empty, ext |-> Empty]

\* lines 95-102: the declared Content-Type header
HeaderStep(table, h) ==
    IF h # Empty
    THEN LET ct == Lower(SplitFirst(h, ";"))
         IN  [ct |-> ct, ext |-> RegistryGet(table, ct)]
    ELSE Unknown

\* urlparse(url).path: without scheme and host, query and fragment
UrlPath(url) ==
    LET rest == IF Len(url) > 0 /\ url[1] = "http://host" THEN Tail(url) ELSE url
    IN  SplitFirst(SplitFirst(rest, "?"), "#")

\* os.path.basename(path)
Basename(path) == SubSeq(path, LastIndexOf(path, "/") + 1, Len(path))

\* os.path.splitext(name)[1]: from the last dot, unless the name starts there
SplitExt(name) ==
    LET i == LastIndexOf(name, ".") IN
    IF i > 0 /\ \E j \in 1..(i - 1) : name[j] # "."
    THEN SubSeq(name, i, Len(name))
    ELSE Empty

\* lines 106-107
UrlExt(url) == Lower(SplitExt(Basename(SplitFirst(UrlPath(url), "?"))))

\* The locator step without the supported-extension test
UrlStep_unchecked(table, st, url) ==
    IF st.ext = Empty /\ url # Empty /\ UrlExt(url) # Empty
    THEN [ct  |-> IF st.ct = Empty THEN RegistryFirstKey(table, UrlExt(url)) ELSE st.ct,
          ext |-> UrlExt(url)]
    ELSE st

\* lines 105-114: the origin locator (URL or file name)
UrlStep(table, st, url) ==
    IF st.ext = Empty /\ url # Empty /\ UrlExt(url) \in SupportedOf(table)
    THEN [ct  |-> IF st.ct = Empty THEN RegistryFirstKey(table, UrlExt(url)) ELSE st.ct,
          ext |-> UrlExt(url)]
    ELSE st

\* Content detection run whenever there is content
SniffRuns_always(st, content) == content # Empty

\* line 117: whether content detection runs
SniffRuns(st, content) == content # Empty /\ (st.ext = Empty \/ st.ct = Empty)

\* lines 124-132: magic numbers; "zip" sends the caller to the archive check,
\* "text" to the text heuristics
MagicKind(content) ==
    LET content_sample == Prefix(content, sample_size)
        magic_sample == Prefix(content_sample, magic_size)
    IN  CASE BytesStartWith(magic_sample, "%PDF") -> "pdf"
          [] BytesStartWith(magic_sample, "\\x89PNG") -> "png"
          [] BytesStartWith(magic_sample, "\\xff\\xd8\\xff") -> "jpg"
          [] BytesStartWith(content_sample, "PK") -> "zip"
          [] OTHER -> "text"

\* lines 125-132: the assignments of a magic-number match
MagicStep(st, kind) ==
    CASE kind = "pdf" -> [ct |-> <<"application/pdf">>, ext |-> Ext("pdf")]
      [] kind = "png" -> [ct |-> <<"image/png">>, ext |-> Ext("png")]
      [] kind = "jpg" -> [ct |-> <<"image/jpeg">>, ext |-> Ext("jpg")]
      [] OTHER -> st

\* lines 141-154: classify the archive written to the scratch file
ZipStep(st, data) ==
    IF ~IsZipFile(data) THEN st
    ELSE LET names == namelist(data) IN
         IF \E n \in names : NameUnder(n, "word")
         THEN [ct |-> <<MimeDocx>>, ext |-> Ext("docx")]
         ELSE IF \E n \in names : NameUnder(n, "xl")
         THEN [ct |-> <<MimeXlsx>>, ext |-> Ext("xlsx")]
         ELSE IF \E n \in names : NameUnder(n, "ppt")
         THEN [ct |-> <<MimePptx>>, ext |-> Ext("pptx")]
         ELSE st

\* lines 158-175: text heuristics on the decoded sample
TextStep(st, content) ==
    LET text_content == safe_decode(Prefix(content, sample_size), decode_size)
        text_content_lower == Lower(text_content)
    IN  IF LStripStartsWith(text_content, "{") \/ LStripStartsWith(text_content, "[")
        THEN [ct |-> <<"application/json">>, ext |-> Ext("json")]
        ELSE IF LStripStartsWith(text_content, "<")
        THEN IF \/ Contains(text_content_lower, "<html")
                \/ Contains(text_content_lower, "<!doctype html")
             THEN [ct |-> <<"text/html">>, ext |-> Ext("html")]
             ELSE [ct |-> <<"text/xml">>, ext |-> Ext("xml")]
        ELSE IF Contains(text_content, ",") \/ Contains(text_content, ";")
        THEN IF ~LStripStartsWith(text_content, "<")
             THEN [ct |-> <<"text/csv">>, ext |-> Ext("csv")]
             ELSE st
        ELSE st

\* mimetypes.guess_type("file" + ext)[0] of the standard table
guess_type(ext) ==
    CASE ext = Ext("pdf") -> <<"application/pdf">>
      [] ext = Ext("html") -> <<"text/html">>
      [] ext = Ext("xml") -> <<"text/xml">>
      [] ext = Ext("csv") -> <<"text/csv">>
      [] ext = Ext("json") -> <<"application/json">>
      [] OTHER -> Empty

\* mimetypes.guess_extension(content_type) of the standard table
guess_extension(ct) ==
    CASE ct = <<"application/zip">> -> Ext("zip")
      [] ct = <<"application/octet-stream">> -> Ext("bin")
      [] ct = <<"application/pdf">> -> Ext("pdf")
      [] ct = <<"text/html">> -> Ext("html")
      [] OTHER -> Empty

\* lines 185-190: generic cross-fill
FallbackStep(table, st) ==
    IF st.ext # Empty /\ st.ct = Empty
    THEN [st EXCEPT !.ct = guess_type(st.ext)]
    ELSE IF st.ct # Empty /\ st.ext = Empty
    THEN IF guess_extension(st.ct) \in SupportedOf(table)
         THEN [st EXCEPT !.ext = guess_extension(st.ct)]
         ELSE st
    ELSE st

\* lines 193-196: default
DefaultStep(st) ==
    IF st.ct = Empty THEN [st EXCEPT !.ct = <<"application/octet-stream">>] ELSE st

-----------------------------------------------------------------------------
(* Inputs of a request *)

\* Filler chunks of an archive
Padding(n) == [i \in 1..n |-> Chunk("data")]

\* A well-formed ZIP archive: local file header first, central directory last
ZipArchive(names, pad) == <<Chunk("PK")>> \o Padding(pad) \o <<Eocd(names)>>

ZipListings ==
    { {<<"word", "document.xml">>},
      {<<"xl", "workbook.xml">>},
      {<<"ppt", "presentation.xml">>},
      {<<"xl", "workbook.xml">>, <<"word", "document.xml">>},
      {<<"ppt", "presentation.xml">>, <<"xl", "workbook.xml">>},
      {<<"wordlist.txt">>, <<"docs", "readme.txt">>} }

ZipContents == {ZipArchive(names, pad) : names \in ZipListings, pad \in 0..MaxPad}

\* An archive cut short or damaged: no end-of-central-directory record
CorruptZip == <<Chunk("PK"), Chunk("data")>>

BinaryContents ==
    { <<Chunk("%PDF"), Chunk("data")>>,
      <<Chunk("\\x89PNG"), Chunk("data")>>,
      <<Chunk("\\xff\\xd8\\xff"), Chunk("data")>> }

TextContents ==
    { <<Chunk("{\"a\":1}")>>,
      <<Chunk(" "), Chunk("[1,2]")>>,
      <<Chunk("<html"), Chunk("prose")>>,
      <<Chunk("<!DOCTYPE html")>>,
      <<Chunk("<root")>>,
      <<Chunk("<root"), Chunk("<HTML")>>,
      <<Chunk("<root"), Chunk("prose"), Chunk("<html")>>,
      <<Chunk("a,b")>>,
      <<Chunk("prose"), Chunk("a;b")>>,
      <<Chunk("prose")>>,
      <<Chunk("\\xff"), Chunk("a,b")>>,
      <<Chunk("\\xff\\xfe"), Chunk("a,b")>> }

\* Empty: an upload or a download of no bytes
Contents == ZipContents \cup {CorruptZip} \cup BinaryContents \cup TextContents \cup {Empty}

\* Declared Content-Type header values (Empty: no header)
HeaderValues ==
    { Empty,
      <<"text/html">>,
      <<"TEXT/HTML", ";", "charset=utf-8">>,
      <<"text/html", " ", ";", "charset=utf-8">>,
      <<"application/xhtml+xml">>,
      <<"Application/PDF">>,
      <<"application/octet-stream">>,
      <<"application/zip">>,
      <<"text/plain">> }

\* Origin locators: a URL or an uploaded file's name (Empty: none)
Locators ==
    { Empty,
      <<"report", ".", "pdf">>,
      <<"http://host", "/", "report", ".", "PDF", "?", "v=1">>,
      <<"http://host", "/", "page", ".", "html">>,
      <<"http://host", "/", "setup", ".", "exe">>,
      <<"http://host", "/", "v1", ".", "2", "/", "doc">> }

Inputs == [content : Contents, header : HeaderValues, url : Locators]

\* The inputs of the concurrent specification
ConcInputs ==
    { [content |-> ZipArchive({<<"word", "document.xml">>}, 0),
       header |-> Empty, url |-> Empty],
      [content |-> ZipArchive({<<"xl", "workbook.xml">>}, 1),
       header |-> <<"application/zip">>, url |-> Empty],
      [content |-> <<Chunk("<html"), Chunk("prose")>>,
       header |-> <<"text/html">>, url |-> Empty],
      [content |-> <<Chunk("prose")>>,
       header |-> <<"text/plain">>, url |-> Empty] }

-----------------------------------------------------------------------------
(* Oracles: answers of the external converters and faults of file writes *)

\* trafilatura.extract: None, "" or Markdown
NoneMd == [some |-> FALSE, md |-> Empty]
Extractions == {NoneMd, [some |-> TRUE, md |-> Empty], [some |-> TRUE, md |-> <<"extracted">>]}

\* `if extracted:`
Truthy(x) == x.some /\ x.md # Empty

Titles == {Empty, <<"Title">>}
Renderings == {Empty, <<"body">>}
Texts == {Empty, <<"text">>}

ScratchFaults == {"none", "write", "fsync"}
ConvertFaults == {"none", "write", "fsync", "convert"}
HtmlFaults == {"none", "extract", "chardet", "document", "render"}

-----------------------------------------------------------------------------
(* State *)

NoFile == [exists |-> FALSE, data |-> Empty, owner |-> 0]

NoResponse == [status |-> 0, result |-> Empty, method |-> "", detail |-> Empty,
               content_type |-> Empty]

InitReq ==
    [pc |-> "idle", content |-> Empty, header |-> Empty, url |-> Empty,
     st |-> Unknown, tmp |-> 0, temp_path |-> 0, exc |-> "none",
     zfault |-> "none", fault |-> "none", extracted |-> NoneMd, title |-> Empty,
     article |-> Empty, text |-> Empty,
     result |-> Empty, conversion_method |-> "default",
     resp |-> NoResponse,
     \* history, for the properties only
     trail |-> <<>>, branch |-> "", invoked |-> {}, made |-> {},
     cv_made |-> {}, foreign |-> FALSE]

Init ==
    /\ req = [p \in Procs |-> InitReq]
    /\ files = [n \in Names |-> NoFile]
    /\ registry = MIME_TYPE_MAPPINGS

\* raise HTTPException(status_code, detail)
Raise(r, status, detail) ==
    [r EXCEPT !.pc = "raised",
              !.resp = [NoResponse EXCEPT !.status = status, !.detail = detail]]

\* lines 307-310: any other exception becomes HTTPException(500, str(e))
RaiseInternal(r, e) == Raise(r, 500, <<e>>)

\* The HTML branch without its own handler: the outer one answers
RaiseExtraction_outer(r, e) == Raise(r, 500, <<e>>)

\* lines 260-264: the HTML branch's handler
RaiseExtraction(r, e) == Raise(r, 500, <<"Failed to extract web content: ", e>>)

\* lines 269-272
RaiseUnsupported(r) ==
    Raise(r, 400, <<"Unsupported or invalid file format: ">> \o r.st.ct)

\* line 227
IsHtmlContentType(ct) == Len(ct) > 0 /\ ct[1] = "text/html"

\* Temporary names handed out without regard to existing files
FreshNames_any(fs) == Names

\* tempfile.NamedTemporaryFile(delete=False): a name no existing file has
FreshNames(fs) == {n \in Names : ~fs[n].exists}

-----------------------------------------------------------------------------
(* The /convert handler, one action per step *)

\* lines 152-183, 207-220: a request arrives with its content, its declared
\* Content-Type and its URL or file name, and detect_content_type is called
Accept(p, in) ==
    /\ req' = [req EXCEPT ![p] = [@ EXCEPT !.pc = "headers",
                                            !.content = in.content,
                                            !.header = in.header,
                                            !.url = in.url]]
    /\ UNCHANGED <<files, registry>>

Receive(p) ==
    /\ req[p].pc = "idle"
    /\ \E in \in Inputs : Accept(p, in)

ReceiveConc(p) ==
    /\ req[p].pc = "idle"
    /\ \E in \in ConcInputs : Accept(p, in)

\* utils.py lines 91-102
DetectHeaders(p) ==
    LET r == req[p]
        st == HeaderStep(registry, r.header)
    IN  /\ r.pc = "headers"
        /\ req' = [req EXCEPT ![p] = [r EXCEPT !.pc = "url", !.st = st,
                                               !.trail = Append(@, st)]]
        /\ UNCHANGED <<files, registry>>

\* utils.py lines 105-114
DetectUrl(p) ==
    LET r == req[p]
        st == UrlStep(registry, r.st, r.url)
    IN  /\ r.pc = "url"
        /\ req' = [req EXCEPT ![p] = [r EXCEPT !.pc = "sniff", !.st = st,
                                               !.trail = Append(@, st)]]
        /\ UNCHANGED <<files, registry>>

\* utils.py lines 117-133, 156-175: content detection without a scratch file
DetectSniff(p) ==
    LET r == req[p]
        kind == MagicKind(r.content)
        st == IF ~SniffRuns(r.st, r.content) THEN r.st
              ELSE IF kind = "text" THEN TextStep(r.st, r.content)
              ELSE MagicStep(r.st, kind)
    IN  /\ r.pc = "sniff"
        /\ ~(SniffRuns(r.st, r.content) /\ kind = "zip")
        /\ req' = [req EXCEPT ![p] = [r EXCEPT !.pc = "fallback", !.st = st,
                                               !.trail = Append(@, st)]]
        /\ UNCHANGED <<files, registry>>

\* utils.py line 135: the content starts with PK; the scratch file is created
ZipCreate(p) ==
    LET r == req[p] IN
    /\ r.pc = "sniff"
    /\ SniffRuns(r.st, r.content)
    /\ MagicKind(r.content) = "zip"
    /\ \E n \in FreshNames(files), f \in ScratchFaults :
          /\ files' = [files EXCEPT ![n] = [exists |-> TRUE, data |-> Empty, owner |-> p]]
          /\ req' = [req EXCEPT ![p] = [r EXCEPT !.pc = "zip_write", !.tmp = n,
                                                 !.temp_path = 0, !.zfault = f,
                                                 !.made = @ \cup {n}]]
    /\ UNCHANGED registry

\* utils.py lines 136-137: write the sample, then remember the path.  A failed
\* write leaves the `with` block before temp_path is assigned.
ZipWrite(p) ==
    LET r == req[p] IN
    /\ r.pc = "zip_write"
    /\ IF r.zfault = "write"
       THEN /\ req' = [req EXCEPT ![p] = [r EXCEPT !.pc = "zip_finally",
                                                   !.exc = "OSError: write"]]
            /\ UNCHANGED files
       ELSE /\ files' = [files EXCEPT ![r.tmp].data = Prefix(r.content, sample_size)]
            /\ req' = [req EXCEPT ![p] = [r EXCEPT !.pc = "zip_sync",
                                                   !.temp_path = r.tmp,
                                                   !.foreign = @ \/ files[r.tmp].owner # p]]
    /\ UNCHANGED registry

\* utils.py lines 138-139
ZipSync(p) ==
    LET r == req[p] IN
    /\ r.pc = "zip_sync"
    /\ req' = [req EXCEPT ![p] =
                  IF r.zfault = "fsync"
                  THEN [r EXCEPT !.pc = "zip_finally", !.exc = "OSError: fsync"]
                  ELSE [r EXCEPT !.pc = "zip_open"]]
    /\ UNCHANGED <<files, registry>>

\* utils.py lines 141-154: open the scratch file as an archive
ZipOpen(p) ==
    LET r == req[p]
        f == files[r.temp_path]
    IN  /\ r.pc = "zip_open"
        /\ req' = [req EXCEPT ![p] =
                      IF ~f.exists
                      THEN [r EXCEPT !.pc = "zip_finally", !.exc = "FileNotFoundError",
                                     !.foreign = TRUE]
                      ELSE [r EXCEPT !.pc = "zip_finally",
                                     !.st = ZipStep(r.st, f.data),
                                     !.foreign = @ \/ f.owner # p]]
        /\ UNCHANGED <<files, registry>>

\* utils.py lines 177-182: the finally block, then the exception (if any)
\* leaves detect_content_type and reaches main.py lines 307-310.  os.unlink of
\* a file that exists is taken to succeed.
ZipFinally(p) ==
    LET r == req[p]
        unlink == r.temp_path # 0 /\ files[r.temp_path].exists
    IN  /\ r.pc = "zip_finally"
        /\ files' = IF unlink THEN [files EXCEPT ![r.temp_path] = NoFile] ELSE files
        /\ req' = [req EXCEPT ![p] =
                      IF r.exc # "none"
                      THEN [RaiseInternal(r, r.exc) EXCEPT
                               !.foreign = @ \/ (unlink /\ files[r.temp_path].owner # p)]
                      ELSE [r EXCEPT !.pc = "fallback",
                                     !.trail = Append(@, r.st),
                                     !.foreign = @ \/ (unlink /\ files[r.temp_path].owner # p)]]
        /\ UNCHANGED registry

\* utils.py lines 185-190
DetectFallback(p) ==
    LET r == req[p]
        st == FallbackStep(registry, r.st)
    IN  /\ r.pc = "fallback"
        /\ req' = [req EXCEPT ![p] = [r EXCEPT !.pc = "default", !.st = st,
                                               !.trail = Append(@, st)]]
        /\ UNCHANGED <<files, registry>>

\* utils.py lines 193-196
DetectDefault(p) ==
    LET r == req[p]
        st == DefaultStep(r.st)
    IN  /\ r.pc = "default"
        /\ req' = [req EXCEPT ![p] = [r EXCEPT !.pc = "dispatch", !.st = st,
                                               !.trail = Append(@, st)]]
        /\ UNCHANGED <<files, registry>>

\* main.py lines 224-227: HTML content goes to web content extraction
DispatchHtml(p) ==
    LET r == req[p] IN
    /\ r.pc = "dispatch"
    /\ IsHtmlContentType(r.st.ct)
    /\ \E x \in Extractions, t \in Titles, a \in Renderings, f \in HtmlFaults :
          req' = [req EXCEPT ![p] = [r EXCEPT !.pc = "extract", !.branch = "html",
                                              !.extracted = x, !.title = t,
                                              !.article = a, !.fault = f]]
    /\ UNCHANGED <<files, registry>>

\* main.py lines 266-272: other content must have a supported extension
DispatchOther(p) ==
    LET r == req[p] IN
    /\ r.pc = "dispatch"
    /\ ~IsHtmlContentType(r.st.ct)
    /\ req' = [req EXCEPT ![p] =
                  IF r.st.ext = Empty \/ ~is_supported_filetype(r.st.ext)
                  THEN RaiseUnsupported(r)
                  ELSE [r EXCEPT !.pc = "cv_create", !.branch = "generic"]]
    /\ UNCHANGED <<files, registry>>

\* The heading written whether or not there is a title
ReadabilityResult_always(title, article) ==
    <<"# ">> \o title \o <<"\n\n">> \o article

\* main.py lines 256-257
ReadabilityResult(title, article) ==
    (IF title # Empty THEN <<"# ">> \o title \o <<"\n\n">> ELSE Empty) \o article

\* main.py lines 229-241, 260-264: structured extraction
Extract(p) ==
    LET r == req[p] IN
    /\ r.pc = "extract"
    /\ req' = [req EXCEPT ![p] =
                  IF ~Utf8Valid(r.content)
                  THEN RaiseExtraction(r, "UnicodeDecodeError")
                  ELSE IF r.fault = "extract"
                  THEN RaiseExtraction([r EXCEPT !.invoked = @ \cup {"trafilatura"}],
                                       "extract")
                  ELSE IF Truthy(r.extracted)
                  THEN [r EXCEPT !.pc = "respond",
                                 !.invoked = @ \cup {"trafilatura"},
                                 !.conversion_method = "trafilatura",
                                 !.result = r.extracted.md]
                  ELSE [r EXCEPT !.pc = "readability",
                                 !.invoked = @ \cup {"trafilatura"}]]
    /\ UNCHANGED <<files, registry>>

\* main.py lines 242-264: the readability fallback
Readability(p) ==
    LET r == req[p]
        s == [r EXCEPT !.invoked = @ \cup {"readability"}]
    IN  /\ r.pc = "readability"
        /\ req' = [req EXCEPT ![p] =
                      IF r.fault \in {"chardet", "document", "render"}
                      THEN RaiseExtraction(s, r.fault)
                      ELSE [s EXCEPT !.pc = "respond",
                                     !.result = ReadabilityResult(r.title, r.article),
                                     !.conversion_method = "readability"]]
        /\ UNCHANGED <<files, registry>>

\* main.py lines 275-277: the content file of the generic-document branch
CvCreate(p) ==
    LET r == req[p] IN
    /\ r.pc = "cv_create"
    /\ \E n \in FreshNames(files), f \in ConvertFaults, t \in Texts :
          /\ files' = [files EXCEPT ![n] = [exists |-> TRUE, data |-> Empty, owner |-> p]]
          /\ req' = [req EXCEPT ![p] = [r EXCEPT !.pc = "cv_write", !.tmp = n,
                                                 !.temp_path = 0, !.fault = f,
                                                 !.text = t,
                                                 !.made = @ \cup {n},
                                                 !.cv_made = @ \cup {n}]]
    /\ UNCHANGED registry

\* main.py lines 278-279
CvWrite(p) ==
    LET r == req[p] IN
    /\ r.pc = "cv_write"
    /\ IF r.fault = "write"
       THEN /\ req' = [req EXCEPT ![p] = [r EXCEPT !.pc = "cv_finally",
                                                   !.exc = "OSError: write"]]
            /\ UNCHANGED files
       ELSE /\ files' = [files EXCEPT ![r.tmp].data = r.content]
            /\ req' = [req EXCEPT ![p] = [r EXCEPT !.pc = "cv_sync",
                                                   !.temp_path = r.tmp,
                                                   !.foreign = @ \/ files[r.tmp].owner # p]]
    /\ UNCHANGED registry

\* main.py lines 280-281
CvSync(p) ==
    LET r == req[p] IN
    /\ r.pc = "cv_sync"
    /\ req' = [req EXCEPT ![p] =
                  IF r.fault = "fsync"
                  THEN [r EXCEPT !.pc = "cv_finally", !.exc = "OSError: fsync"]
                  ELSE [r EXCEPT !.pc = "cv_convert"]]
    /\ UNCHANGED <<files, registry>>

\* main.py lines 283-285: the generic document converter reads the file
CvConvert(p) ==
    LET r == req[p]
        f == files[r.temp_path]
        s == [r EXCEPT !.invoked = @ \cup {"markitdown"},
                       !.foreign = @ \/ ~f.exists \/ f.owner # p \/ f.data # r.content]
    IN  /\ r.pc = "cv_convert"
        /\ req' = [req EXCEPT ![p] =
                      IF ~f.exists
                      THEN [s EXCEPT !.pc = "cv_finally", !.exc = "FileNotFoundError"]
                      ELSE IF r.fault = "convert" \/ f.data # r.content
                      THEN [s EXCEPT !.pc = "cv_finally", !.exc = "convert"]
                      ELSE [s EXCEPT !.pc = "cv_finally",
                                     !.result = r.text,
                                     !.conversion_method = "markitdown"]]
        /\ UNCHANGED <<files, registry>>

\* main.py lines 287-292, then 307-310 when an exception is in flight
CvFinally(p) ==
    LET r == req[p]
        unlink == r.temp_path # 0 /\ files[r.temp_path].exists
    IN  /\ r.pc = "cv_finally"
        /\ files' = IF unlink THEN [files EXCEPT ![r.temp_path] = NoFile] ELSE files
        /\ req' = [req EXCEPT ![p] =
                      IF r.exc # "none"
                      THEN [RaiseInternal(r, r.exc) EXCEPT
                               !.foreign = @ \/ (unlink /\ files[r.temp_path].owner # p)]
                      ELSE [r EXCEPT !.pc = "respond",
                                     !.foreign = @ \/ (unlink /\ files[r.temp_path].owner # p)]]
        /\ UNCHANGED registry

\* main.py lines 294-305
Respond(p) ==
    LET r == req[p] IN
    /\ r.pc = "respond"
    /\ req' = [req EXCEPT ![p] =
                  [r EXCEPT !.pc = "returned",
                            !.resp = [status |-> 200, result |-> r.result,
                                      method |-> r.conversion_method,
                                      detail |-> Empty,
                                      content_type |-> r.st.ct]]]
    /\ UNCHANGED <<files, registry>>

Step(p) ==
    \/ DetectHeaders(p) \/ DetectUrl(p) \/ DetectSniff(p)
    \/ ZipCreate(p) \/ ZipWrite(p) \/ ZipSync(p) \/ ZipOpen(p) \/ ZipFinally(p)
    \/ DetectFallback(p) \/ DetectDefault(p)
    \/ DispatchHtml(p) \/ DispatchOther(p)
    \/ Extract(p) \/ Readability(p)
    \/ CvCreate(p) \/ CvWrite(p) \/ CvSync(p) \/ CvConvert(p) \/ CvFinally(p)
    \/ Respond(p)

\* One request at a time, over every input
Next == \E p \in SoloProcs : Receive(p) \/ Step(p)

Spec == Init /\ [][Next]_vars

\* Requests in flight together, their steps interleaved
NextConc == \E p \in Procs : ReceiveConc(p) \/ Step(p)

SpecConc == Init /\ [][NextConc]_vars

Finished(r) == r.pc \in {"returned", "raised"}

-----------------------------------------------------------------------------
(* The handler run from start to end on one request's inputs and oracle     *)
(* answers, with nothing else running: the response it gives.              *)

\* detect_content_type as one call: its result, or the exception it raises
DetectAlone(content, header, url, zfault) ==
    LET s1 == HeaderStep(MIME_TYPE_MAPPINGS, header)
        s2 == UrlStep(MIME_TYPE_MAPPINGS, s1, url)
        kind == MagicKind(content)
        zip == SniffRuns(s2, content) /\ kind = "zip"
        s3 == IF ~SniffRuns(s2, content) THEN s2
              ELSE IF zip THEN ZipStep(s2, Prefix(content, sample_size))
              ELSE IF kind = "text" THEN TextStep(s2, content)
              ELSE MagicStep(s2, kind)
    IN  [exc |-> IF zip /\ zfault = "write" THEN "OSError: write"
                 ELSE IF zip /\ zfault = "fsync" THEN "OSError: fsync"
                 ELSE "none",
         st |-> DefaultStep(FallbackStep(MIME_TYPE_MAPPINGS, s3))]

Failure(status, detail) == [NoResponse EXCEPT !.status = status, !.detail = detail]

Success(result, method, ct) ==
    [status |-> 200, result |-> result, method |-> method, detail |-> Empty,
     content_type |-> ct]

\* convert as one call
ConvertAlone(r) ==
    LET d == DetectAlone(r.content, r.header, r.url, r.zfault) IN
    IF d.exc # "none" THEN Failure(500, <<d.exc>>)
    ELSE IF IsHtmlContentType(d.st.ct)
    THEN IF ~Utf8Valid(r.content)
         THEN Failure(500, <<"Failed to extract web content: ", "UnicodeDecodeError">>)
         ELSE IF r.fault = "extract"
         THEN Failure(500, <<"Failed to extract web content: ", r.fault>>)
         ELSE IF Truthy(r.extracted)
         THEN Success(r.extracted.md, "trafilatura", d.st.ct)
         ELSE IF r.fault \in {"chardet", "document", "render"}
         THEN Failure(500, <<"Failed to extract web content: ", r.fault>>)
         ELSE Success(ReadabilityResult(r.title, r.article), "readability", d.st.ct)
    ELSE IF d.st.ext = Empty \/ ~is_supported_filetype(d.st.ext)
    THEN Failure(400, <<"Unsupported or invalid file format: ">> \o d.st.ct)
    ELSE IF r.fault = "write"
    THEN Failure(500, <<"OSError: write">>)
    ELSE IF r.fault = "fsync"
    THEN Failure(500, <<"OSError: fsync">>)
    ELSE IF r.fault = "convert"
    THEN Failure(500, <<"convert">>)
    ELSE Success(r.text, "markitdown", d.st.ct)

-----------------------------------------------------------------------------
(* Properties *)

\* detect_content_type has returned: one entry of trail per step
Resolved(r) == Len(r.trail) = 5

\* The declared MIME, normalized: parameters dropped, lower case
Declared(r) == Lower(SplitFirst(r.header, ";"))

HtmlFailed(resp, cause) ==
    /\ resp.status = 500
    /\ resp.detail = <<"Failed to extract web content: ", cause>>
    /\ resp.result = Empty
    /\ resp.method = ""

\* C1: once the type is resolved, the call fails with the unsupported-format
\* client error (status 400) exactly when the type is neither HTML (a MIME
\* beginning text/html) nor has an extension of the supported set; and when it
\* fails this way no converter was invoked and convert created no temporary file.
C1_UnsupportedFormat ==
    \A p \in Procs :
        LET r == req[p] IN
        (Finished(r) /\ Resolved(r)) =>
            /\ (r.resp.status = 400) <=>
                   (~(Len(r.st.ct) > 0 /\ r.st.ct[1] = "text/html")
                    /\ r.st.ext \notin SUPPORTED_EXTENSIONS)
            /\ (r.resp.status = 400) =>
                   (r.invoked = {} /\ r.cv_made = {} /\ r.resp.result = Empty)

C1_Witness ==
    \E p \in Procs :
        /\ req[p].pc = "raised" /\ Resolved(req[p])
        /\ req[p].resp.status = 400
        /\ req[p].st.ct = <<"application/zip">>

\* C3: on the HTML branch with no stage raising, a non-empty structured
\* extraction is returned as it is with method "trafilatura" and readability is
\* not run; otherwise readability is run, the method is "readability", and the
\* Markdown is the rendered article preceded by "# title" and a blank line when
\* the title is non-empty, and the rendered article alone when it is empty.
C3_HtmlOutcome ==
    \A p \in Procs :
        LET r == req[p] IN
        (r.pc = "returned" /\ r.branch = "html") =>
            IF r.extracted.some /\ r.extracted.md # Empty
            THEN /\ r.resp.result = r.extracted.md
                 /\ r.resp.method = "trafilatura"
                 /\ "readability" \notin r.invoked
            ELSE /\ "readability" \in r.invoked
                 /\ r.resp.method = "readability"
                 /\ r.title # Empty =>
                        r.resp.result = <<"# ">> \o r.title \o <<"\n\n">> \o r.article
                 /\ r.title = Empty => r.resp.result = r.article

C3_Witness ==
    \E p \in Procs :
        /\ req[p].pc = "returned" /\ req[p].branch = "html"
        /\ ~req[p].extracted.some
        /\ req[p].title = Empty
        /\ req[p].resp.method = "readability"
        /\ req[p].resp.result = <<"body">>

\* C5: on the HTML branch an exception in either stage ends the call with the
\* one extraction-failed server error (status 500, "Failed to extract web
\* content: " and the cause), no result and no method; the generic converter is
\* never invoked nor its file created; and readability runs only after
\* structured extraction returned, without raising, an empty result.
C5_ExtractionFailed ==
    \A p \in Procs :
        LET r == req[p]
            undecodable == ~Utf8Valid(r.content)
            first == undecodable \/ r.fault = "extract"
            second == ~first /\ ~Truthy(r.extracted)
                      /\ r.fault \in {"chardet", "document", "render"}
        IN  r.branch = "html" =>
                /\ (Finished(r) /\ (first \/ second)) =>
                       /\ r.pc = "raised"
                       /\ HtmlFailed(r.resp, IF undecodable THEN "UnicodeDecodeError"
                                                            ELSE r.fault)
                /\ "markitdown" \notin r.invoked
                /\ r.cv_made = {}
                /\ "readability" \in r.invoked =>
                       ("trafilatura" \in r.invoked /\ ~first /\ ~Truthy(r.extracted))

C5_Witness ==
    \E p \in Procs :
        /\ req[p].pc = "raised" /\ req[p].branch = "html"
        /\ req[p].fault = "render"
        /\ req[p].invoked = {"trafilatura", "readability"}
        /\ req[p].resp.status = 500

\* C2: when the call has returned or raised, no temporary file it created
\* (the scratch file of the ZIP check, the content file of the generic branch)
\* exists any more, whatever the exit path, a failed write or sync included.
C2_NoTempFileLeft ==
    \A p \in Procs :
        Finished(req[p]) => \A n \in req[p].made : ~files[n].exists

\* The archive class the listing of a well-formed ZIP calls for
ListingExt(names) ==
    IF \E n \in names : Len(n) >= 2 /\ n[1] = "word" THEN Ext("docx")
    ELSE IF \E n \in names : Len(n) >= 2 /\ n[1] = "xl" THEN Ext("xlsx")
    ELSE IF \E n \in names : Len(n) >= 2 /\ n[1] = "ppt" THEN Ext("pptx")
    ELSE Empty

\* C4: with no declared MIME and no locator, a well-formed ZIP archive of any
\* length resolves to .docx if it lists an entry under word/, else .xlsx under
\* xl/, else .pptx under ppt/, else to no extension; a corrupt ZIP resolves to
\* no extension, and neither raises.
C4_ZipClassified ==
    \A p \in Procs :
        LET r == req[p]
            c == r.content
        IN  (/\ r.pc \notin {"idle", "headers", "url", "sniff",
                             "zip_write", "zip_sync", "zip_open", "zip_finally"}
             /\ r.header = Empty /\ r.url = Empty /\ r.zfault = "none"
             /\ Len(c) > 0 /\ c[1].t = "PK") =>
                /\ Resolved(r) \/ r.pc \in {"fallback", "default"}
                /\ r.st.ext = IF c[Len(c)].t = "EOCD" THEN ListingExt(c[Len(c)].names)
                              ELSE Empty

\* C6: no successful outcome of the HTML branch carries empty Markdown: when
\* structured extraction is empty and readability yields no title and an empty
\* rendering, the call fails.
C6_EmptyIsFailure ==
    \A p \in Procs :
        (req[p].pc = "returned" /\ req[p].branch = "html") =>
            req[p].resp.result # Empty

\* C7 as claimed: a non-empty resolved extension is supported and the returned
\* MIME is a Registry key that the Registry maps to that extension.
C7_Original ==
    \A p \in Procs :
        LET r == req[p] IN
        (Resolved(r) /\ r.st.ext # Empty) =>
            /\ r.st.ext \in SUPPORTED_EXTENSIONS
            /\ RegistryGet(MIME_TYPE_MAPPINGS, r.st.ct) = r.st.ext

\* C7, amended: a non-empty resolved extension is supported, and the returned
\* MIME is a Registry key mapped to that extension unless the returned MIME is
\* the declared MIME and has no Registry entry, the extension then coming from
\* the origin locator or the generic MIME lookup.
C7_TypeAgrees ==
    \A p \in Procs :
        LET r == req[p] IN
        (Resolved(r) /\ r.st.ext # Empty) =>
            /\ r.st.ext \in SUPPORTED_EXTENSIONS
            /\ \/ RegistryGet(MIME_TYPE_MAPPINGS, r.st.ct) = r.st.ext
               \/ /\ r.st.ct = Declared(r)
                  /\ RegistryGet(MIME_TYPE_MAPPINGS, r.st.ct) = Empty
                  /\ \/ r.url # Empty /\ r.st.ext = UrlExt(r.url)
                     \/ r.st.ext = guess_extension(r.st.ct)

C7_Witness ==
    \E p \in Procs :
        /\ Resolved(req[p])
        /\ req[p].st = [ct |-> <<"application/octet-stream">>, ext |-> Ext("pdf")]
        /\ req[p].header = <<"application/octet-stream">>

\* A step that leaves a field it found known as it was
Fills(before, after) ==
    /\ before.ct # Empty => after.ct = before.ct
    /\ before.ext # Empty => after.ext = before.ext

\* C8 as claimed: every step of resolve leaves a known field unchanged, and a
\* declared MIME is the returned MIME whatever the content holds.
C8_Original ==
    \A p \in Procs :
        LET r == req[p] IN
        /\ \A i \in 2..Len(r.trail) : Fills(r.trail[i - 1], r.trail[i])
        /\ (Resolved(r) /\ Declared(r) # Empty) => r.st.ct = Declared(r)

\* C8, amended: every step but content sniffing leaves a known field
\* unchanged; sniffing changes nothing when both fields are known, and otherwise
\* either changes nothing or sets both fields to the pair it recognised,
\* replacing a declared MIME; so a declared MIME is the returned MIME whenever
\* the Registry or the origin locator gave it an extension.
C8_StepsFill ==
    \A p \in Procs :
        LET r == req[p] IN
        /\ \A i \in 2..Len(r.trail) :
              \/ i # 3 /\ Fills(r.trail[i - 1], r.trail[i])
              \/ i = 3 /\ r.trail[3] = r.trail[2]
              \/ /\ i = 3
                 /\ r.trail[2].ext = Empty \/ r.trail[2].ct = Empty
                 /\ r.trail[3].ext # Empty
                 /\ RegistryGet(MIME_TYPE_MAPPINGS, r.trail[3].ct) = r.trail[3].ext
        /\ (Resolved(r) /\ Declared(r) # Empty /\ r.trail[2].ext # Empty) =>
               r.st.ct = Declared(r)

C8_Witness ==
    \E p \in Procs :
        /\ Resolved(req[p])
        /\ Declared(req[p]) = <<"application/octet-stream">>
        /\ req[p].trail[2].ct = <<"application/octet-stream">>
        /\ req[p].st = [ct |-> <<"application/pdf">>, ext |-> Ext("pdf")]

C10_DispatchByType ==
    \A p \in Procs :
        LET r == req[p] IN
        /\ (r.branch # "" /\ RegistryGet(MIME_TYPE_MAPPINGS, r.st.ct) = Ext("html")) =>
               r.branch = "html"
        /\ "markitdown" \in r.invoked => r.st.ext # Ext("html")
        /\ r.branch = "html" =>
               ~(r.st.ext \in SUPPORTED_EXTENSIONS /\ r.st.ext # Ext("html"))

=============================================================================
